---------------------------- MODULE Spec2Model ----------------------------
(***************************************************************************)
(* Model of the damage-classification service: the NaiveBayesService       *)
(* singleton (model, is_trained, last_trained_at, training_samples and the *)
(* pickle file), the ModelMetricsService / PredictionService wrappers and  *)
(* the /predictions routes, run as coroutines of one asyncio event loop.   *)
(*                                                                         *)
(* A coroutine owns the loop from the moment it is resumed until its next  *)
(* await; `running` names the owner.  NaiveBayesService.train is a plain   *)
(* (non-async) method, so its statements are separate steps here that all  *)
(* keep the loop.  A finished call leaves its response in lastTrain (train *)
(* calls) or resp (predict, model-info, status) and frees its slot.        *)
(***************************************************************************)
EXTENDS Naturals, Integers, Sequences, FiniteSets, TLC

(* ------------------------------ bounds -------------------------------- *)
MaxFits == 2            \* GaussianNB objects created per behaviour
MaxRestarts == 1        \* process restarts per behaviour
MaxHistory == 1         \* rows of prediction_history per behaviour
MaxFeatLen == 8         \* longest feature vector handed to predict
MaxTrains == 3          \* train calls on rows that reach fit, per behaviour
MaxRecords == 3         \* rows of damage_records, and rows of one bulk import

(* -------------------------- program constants ------------------------- *)
MinSamples == 10        \* naive_bayes_service.py:103
MinSamplesRoute == 10   \* model_metrics_service.py:39
NumFeatures == 7        \* naive_bayes_service.py:170
CLASSES == <<"ringan", "sedang", "berat">>

\* calls that can be in flight together
TrainIds == {1, 2}
PredictIds == {1}

NoTask == <<"none", 0>>
TTask(t) == <<"train", t>>
PTask(p) == <<"predict", p>>

(* ----------------------------- inputs --------------------------------- *)
\* A training set as read from damage_records: how many rows carry each
\* label, and whether a row with a non-finite feature (inf passes the
\* gt=0 / ge=0 schema bounds) ends up in the train or the test partition.
DS(r, s, b, nf) == [ringan |-> r, sedang |-> s, berat |-> b, nonfinite |-> nf]


\* a training set together with test_size in percent
\* (TrainingRequest.test_size is gt=0, lt=1, default 0.2)
TrainInput(d, pct) == [data |-> d, pct |-> pct]

TrainInputs ==
    { TrainInput(DS(5, 4, 0, "none"), 20),     \* 9 rows
      TrainInput(DS(4, 3, 3, "none"), 20),     \* 10 rows, test partition of 2
      TrainInput(DS(5, 5, 5, "none"), 20),     \* 15 rows, three classes
      TrainInput(DS(8, 1, 1, "none"), 50),     \* a class with a single row
      TrainInput(DS(6, 4, 0, "none"), 20),     \* a class absent
      TrainInput(DS(5, 5, 5, "train"), 20),    \* non-finite row in the train partition
      TrainInput(DS(5, 5, 5, "test"), 20) }    \* non-finite row in the test partition

\* the training sets the /train route is run on
HttpInputs ==
    { TrainInput(DS(5, 4, 0, "none"), 20),
      TrainInput(DS(4, 3, 3, "none"), 20),
      TrainInput(DS(5, 5, 5, "none"), 20),
      TrainInput(DS(5, 5, 5, "train"), 20),
      TrainInput(DS(5, 5, 5, "test"), 20) }

ConstVec(n, v) == [i \in 1..n |-> v]
FeatureVectors == { ConstVec(n, 1) : n \in (NumFeatures - 1)..MaxFeatLen }

SaveOutcomes == {"ok", "open_fails", "dump_fails"}

(* --------------------------- error signals ---------------------------- *)
\* what a failing call raises (or, for get_model_info, returns)
ErrTooFew == "ValueError: Minimum 10 samples required for training"
ErrRouteTooFew == "ValueError: Insufficient training data"
ErrSplit == "ValueError raised by train_test_split"
ErrNonFinite == "ValueError: Input X contains infinity"
ErrNotTrained == "ValueError: Model is not trained yet"
ErrLength == "ValueError: Expected 7 features"
ErrCommit == "SQLAlchemyError"
Http400NotTrained == "HTTP 400: Model is not trained yet"
Http404Component == "HTTP 404: Component not found"
InfoErrorDict == "{error: Model not trained}"

(* ----------------------------- state ---------------------------------- *)
VARIABLES
    model,              \* NaiveBayesService.model
    is_trained,         \* NaiveBayesService.is_trained
    last_trained_at,    \* NaiveBayesService.last_trained_at (0 = None)
    training_samples,   \* NaiveBayesService.training_samples
    disk,               \* trained_models/naive_bayes_model.pkl
    metrics,            \* model_metrics table, oldest first
    history,            \* prediction_history table, oldest first
    fits,               \* GaussianNB objects created so far
    running,            \* coroutine that owns the event loop
    tpc, tl,            \* train calls: position and locals
    ppc, pl,            \* predict calls: position and locals
    lastTrain,          \* response of the last finished train call
    resp,               \* last predict / model-info / status response
                        \* since the last train call finished
    boot,               \* what _load_model found at construction
    restarts,           \* restarts so far
    trainedOnce,        \* NaiveBayesService.train has returned in this process
    estimator,          \* what fit() left in self.model: classes_ and the
                        \* rows it was fitted on
    report,             \* the dict returned by the last train on rows
    seen,               \* per training input: the first report returned for
                        \* it, the train call that returned it and how many
                        \* reports were returned for it
    np_random,          \* draws made so far from numpy's global generator
    answer,             \* the dict returned by the last predict on rows
    info,               \* the dict returned by the last get_model_info on
                        \* the estimator
    spc,                \* the model-status request in flight: its position
                        \* and the dict get_status gave it
    records,            \* damage_records table, oldest first
    created             \* the last record-creation request and its response

svc == <<model, is_trained, last_trained_at, training_samples>>
evalVars == <<estimator, report, seen, np_random, answer, info, spc, records,
              created>>
vars == <<model, is_trained, last_trained_at, training_samples, disk, metrics,
          history, fits, running, tpc, tl, ppc, pl, lastTrain, resp, boot,
          restarts, trainedOnce, estimator, report, seen, np_random, answer,
          info, spc, records, created>>

\* A GaussianNB object: `by` numbers the train call that created it,
\* `fitted` is set by fit(), `scored` once the test partition was scored.
NoModel == [kind |-> "None"]
NewModel(g) == [kind |-> "GaussianNB", by |-> g, fitted |-> FALSE, scored |-> FALSE]

NoFile == [kind |-> "absent"]
CorruptFile == [kind |-> "corrupt"]
Pickle(m, at, n) == [kind |-> "pickle", model |-> m, trained_at |-> at,
                     training_samples |-> n]

\* the four fields of the singleton, as one value
Installed == [model |-> model, is_trained |-> is_trained,
              last_trained_at |-> last_trained_at,
              training_samples |-> training_samples]

NoInstalled == [model |-> NoModel, is_trained |-> FALSE,
                last_trained_at |-> 0, training_samples |-> 0]

(* --------------------------- pure helpers ----------------------------- *)
Size(d) == d.ringan + d.sedang + d.berat


NumClasses(d) ==
    (IF d.ringan > 0 THEN 1 ELSE 0) + (IF d.sedang > 0 THEN 1 ELSE 0)
  + (IF d.berat > 0 THEN 1 ELSE 0)

\* len(features) < 10 in NaiveBayesService.train
TooFewMutant(d) == Size(d) < MinSamples - 1
TooFew(d) == Size(d) < MinSamples

\* len(features) < 10 in ModelMetricsService.train_model

\* train_test_split: n_test = ceil(test_size * n), n_train = n - n_test
NTest(d, pct) == (Size(d) * pct + 99) \div 100
NTrain(d, pct) == Size(d) - NTest(d, pct)

\* train_test_split(..., stratify=y) raises ValueError when the least
\* populated class has fewer than 2 members or a partition is smaller than
\* the number of classes
SplitFails(d, pct) ==
    \/ \E c \in {d.ringan, d.sedang, d.berat} : c > 0 /\ c < 2
    \/ NTrain(d, pct) < NumClasses(d)
    \/ NTest(d, pct) < NumClasses(d)

\* the id of the fitted model in `inst`, 0 when it has none
FittedBy(inst) ==
    IF inst.is_trained /\ inst.model # NoModel
    THEN (IF inst.model.fitted THEN inst.model.by ELSE 0)
    ELSE 0

\* the order of the statements of NaiveBayesService.train (lines 103-155)
StmtAfterSplitLate(s) ==
    CASE s = "nb_check" -> "alloc"
      [] s = "alloc" -> "split"
      [] s = "split" -> "fit"
      [] s = "fit" -> "eval"
      [] s = "eval" -> "swap"
      [] s = "swap" -> "save"
      [] s = "save" -> "return"
StmtAfterSwapLate(s) ==
    CASE s = "nb_check" -> "split"
      [] s = "split" -> "alloc"
      [] s = "alloc" -> "fit"
      [] s = "fit" -> "eval"
      [] s = "eval" -> "save"
      [] s = "save" -> "swap"
      [] s = "swap" -> "return"
StmtAfter(s) ==
    CASE s = "nb_check" -> "split"
      [] s = "split" -> "alloc"
      [] s = "alloc" -> "fit"
      [] s = "fit" -> "eval"
      [] s = "eval" -> "swap"
      [] s = "swap" -> "save"
      [] s = "save" -> "return"

\* check_is_fitted: the estimator has been fit
IsFitted(m) == m # NoModel /\ m.fitted

(* ------------------------- the event loop ----------------------------- *)
\* The loop resumes a coroutine only when no other coroutine is running:
\* every route is `async def`, so all handlers share the loop's one thread.
ResumableMutant(c) == TRUE
Resumable(c) == running = NoTask

\* c is in the middle of synchronous code
Scheduled(c) == running = c

(* --------------------------- request locals --------------------------- *)
IdleTrain == [via |-> "none", data |-> DS(0, 0, 0, "none"), pct |-> 0, prev |-> NoInstalled,
              prevDisk |-> NoFile, gen |-> 0, save |-> "none"]

\* response of a train call: `at` is the statement it ended at, `before` the
\* fitted model that was installed when train was entered, `gen` the model
\* the call created, `save` what became of its _save_model
NoTrainResp == [status |-> "none", at |-> "none", before |-> 0, gen |-> 0,
                training_samples |-> 0, test_samples |-> 0, save |-> "none"]

TrainError(t, s, at) ==
    [status |-> s, at |-> at, before |-> FittedBy(tl[t].prev), gen |-> tl[t].gen,
     training_samples |-> 0, test_samples |-> 0, save |-> tl[t].save]

\* the dict built at the end of NaiveBayesService.train
TrainReport(t) ==
    [status |-> "ok", at |-> "return", before |-> FittedBy(tl[t].prev),
     gen |-> tl[t].gen,
     training_samples |-> NTrain(tl[t].data, tl[t].pct),
     test_samples |-> NTest(tl[t].data, tl[t].pct), save |-> tl[t].save]

\* during / before / waited: the train call that was fitting when the
\* request arrived, the fitted model installed when that train call began,
\* and whether that train call had ended when the request was served
IdlePredict == [via |-> "none", features |-> <<>>, save_history |-> FALSE,
                during |-> 0, before |-> 0, waited |-> FALSE,
                result |-> "none", by |-> 0]

\* a response: status and, for predict, the model that answered (by), the
\* vector it was given (x) and the length of the vector in the request (len)
NoResp == [op |-> "none", via |-> "none", status |-> "none", by |-> 0,
           x |-> <<>>, len |-> 0, during |-> 0, before |-> 0, waited |-> FALSE,
           is_trained |-> FALSE, training_samples |-> 0, last_trained_at |-> 0,
           accuracy |-> 0]

\* no model-status request in flight
IdleStatus == [pc |-> "idle", status |-> NoResp]

\* no record-creation request was served yet
NoCreated ==
    [op |-> "none", levels |-> <<>>, found |-> FALSE, committed |-> FALSE,
     status |-> "none", success_count |-> 0, error_count |-> 0,
     errors |-> <<>>]

\* train calls that are inside split / fit / evaluate right now
InFitPhase(t) == tpc[t] \in {"split", "alloc", "fit", "eval"}

(* ----------------- rows, split, fit and evaluation -------------------- *)
\* A labelled row of damage_records.  Its 7 features are written as one
\* cell value repeated: rows with equal cells have equal feature vectors.
Rows(l, xs) ==
    [k \in 1..Len(xs) |->
        [label |-> l, features |-> ConstVec(NumFeatures, xs[k])]]

\* training sets in the order get_training_data returns them
TwelveRows == Rows("ringan", <<1, 2, 1, 1>>) \o Rows("sedang", <<2, 2, 2, 2>>)
                \o Rows("berat", <<3, 3, 3, 3>>)
FifteenRows == Rows("ringan", <<1, 1, 1, 1, 1>>) \o Rows("sedang", <<2, 2, 2, 2, 2>>)
                \o Rows("berat", <<3, 3, 3, 3, 3>>)
OneClassRows == Rows("ringan", <<1, 1, 2, 1, 1, 1, 2, 1, 1, 1>>)
TwinRows == Rows("ringan", <<1, 1, 1, 1, 1>>) \o Rows("sedang", <<2, 2, 2, 2, 2>>)
                \o Rows("berat", <<1, 1, 1, 1, 1>>)
FlatRows == Rows("ringan", <<1, 1, 1, 1, 1>>) \o Rows("berat", <<1, 1, 1, 1, 1>>)
HalfRows == Rows("ringan", <<1, 1, 2, 1, 1>>) \o Rows("sedang", <<2, 2, 1, 2, 2>>)
NineRows == Rows("ringan", <<1, 1, 1>>) \o Rows("sedang", <<2, 2, 2>>)
                \o Rows("berat", <<3, 3, 3>>)
TenRows == Rows("ringan", <<1, 1, 1, 1>>) \o Rows("sedang", <<2, 2, 2>>)
                \o Rows("berat", <<3, 3, 3>>)

\* the arguments of train(features, labels, test_size): a training set, by
\* name, and test_size in percent
EvalInput(name, pct) == [name |-> name, pct |-> pct]

EvalInputs ==
    { EvalInput("TwelveRows", 20), EvalInput("FifteenRows", 20),
      EvalInput("OneClassRows", 20), EvalInput("TwinRows", 20),
      EvalInput("HalfRows", 50), EvalInput("NineRows", 20),
      EvalInput("TenRows", 20) }

\* the training sets get_model_info is called after: three classes, one
\* class, and rows that all have the same features
InfoInputs ==
    { EvalInput("TwelveRows", 20), EvalInput("OneClassRows", 20),
      EvalInput("FlatRows", 20), EvalInput("NineRows", 20) }

AllInputs == EvalInputs \cup InfoInputs

RowsOf(in) ==
    CASE in.name = "TwelveRows" -> TwelveRows
      [] in.name = "FifteenRows" -> FifteenRows
      [] in.name = "OneClassRows" -> OneClassRows
      [] in.name = "TwinRows" -> TwinRows
      [] in.name = "HalfRows" -> HalfRows
      [] in.name = "NineRows" -> NineRows
      [] in.name = "TenRows" -> TenRows
      [] in.name = "FlatRows" -> FlatRows

\* the vectors predict is called on
EvalVectors ==
    { ConstVec(NumFeatures, x) : x \in {1, 2} }
      \cup { ConstVec(NumFeatures - 1, 1) }

IndicesOf(rows, c) == { i \in 1..Len(rows) : rows[i].label = c }

Count(rows, c) == Cardinality(IndicesOf(rows, c))

\* the label counts of rows, as the size and split checks read them
Counts(rows) == DS(Count(rows, "ringan"), Count(rows, "sedang"),
                   Count(rows, "berat"), "none")

\* np.unique(y): the labels present, in sorted order
SortedLabels == <<"berat", "ringan", "sedang">>
Present(rows, c) == IndicesOf(rows, c) # {}
Unique(rows) == SelectSeq(SortedLabels, LAMBDA c : Present(rows, c))

\* position of c in np.unique's order, from 0
ClassIdx(c) == CHOOSE k \in 0..2 : SortedLabels[k + 1] = c

\* the elements of a set of indices, in increasing order
InOrder(S) ==
    [k \in 1..Cardinality(S) |->
        CHOOSE i \in S : Cardinality({ j \in S : j < i }) = k - 1]

\* train_test_split(..., random_state=42): the generator the split draws
\* from is seeded afresh with 42 on every call and numpy's global generator
\* (state g) is not touched
RandomStateSeed == 42
RandomStateGlobal(g) == [seed |-> g, global |-> TRUE]
RandomState(g) == [seed |-> RandomStateSeed, global |-> FALSE]

\* StratifiedShuffleSplit, _approximate_mode: class c gets
\* floor(count_c * n_train / n) train rows, and the rows still missing go to
\* the classes with the largest remainders, ties settled by the generator
Floored(rows, pct, c) ==
    (Count(rows, c) * NTrain(Counts(rows), pct)) \div Len(rows)

Remainder(rows, pct, c) ==
    (Count(rows, c) * NTrain(Counts(rows), pct)) % Len(rows)

NeedToAdd(rows, pct) ==
    NTrain(Counts(rows), pct)
      - ( Floored(rows, pct, "ringan") + Floored(rows, pct, "sedang")
            + Floored(rows, pct, "berat") )

\* rank of class c among equal remainders, as the generator orders them
Key(rows, pct, seed, c) ==
    3 * Remainder(rows, pct, c) + ((ClassIdx(c) + seed) % 3)

TrainAlloc(rows, pct, seed, c) ==
    Floored(rows, pct, c)
      + ( IF Cardinality({ d \in { e \in {"ringan", "sedang", "berat"} :
                                     Present(rows, e) } :
                             Key(rows, pct, seed, d) > Key(rows, pct, seed, c) })
               < NeedToAdd(rows, pct)
          THEN 1 ELSE 0 )

\* the generator's permutation of the rows of a class, written as a
\* rotation by the seed: the first TrainAlloc rows of the permuted class go
\* to the train partition, the others to the test partition
InTrain(rows, pct, seed, i) ==
    LET c == rows[i].label
        S == IndicesOf(rows, c)
        pos == (Cardinality({ j \in S : j < i }) + seed) % Cardinality(S)
    IN  pos < TrainAlloc(rows, pct, seed, c)

TrainIdx(rows, pct, seed) ==
    { i \in 1..Len(rows) : InTrain(rows, pct, seed, i) }

TestIdx(rows, pct, seed) == (1..Len(rows)) \ TrainIdx(rows, pct, seed)

Pick(rows, idx) == [k \in 1..Len(idx) |-> rows[idx[k]]]

\* sum of a sequence of integers
RECURSIVE Sum(_)
Sum(w) == IF w = <<>> THEN 0 ELSE Head(w) + Sum(Tail(w))

\* the rows of est.train that carry label c
ClassRows(est, c) == SelectSeq(est.train, LAMBDA r : r.label = c)

\* class_prior_[c]: the share of the training rows that carry label c
ClassPrior(est, c) == <<Len(ClassRows(est, c)), Len(est.train)>>

\* np.var of feature j over rows (divides by the number of rows), a fraction
VarOf(rows, j) ==
    LET n == Len(rows)
        s1 == Sum([k \in 1..n |-> rows[k].features[j]])
        s2 == Sum([k \in 1..n |-> rows[k].features[j] * rows[k].features[j]])
    IN  <<n * s2 - s1 * s1, n * n>>

\* the largest of a non-empty set of fractions with positive denominators
MaxRat(S) == CHOOSE m \in S : \A a \in S : a[1] * m[2] <= m[1] * a[2]

\* GaussianNB.fit: epsilon_ = var_smoothing * np.var(X, axis=0).max(), and
\* var_[c][j] = (variance of feature j over the rows of class c) + epsilon_.
\* var_smoothing is the positive default of GaussianNB(); a variance is
\* written as its two terms, `own` and the factor `largest` of epsilon_.
VarEntry(est, c, j) ==
    [own |-> VarOf(ClassRows(est, c), j),
     largest |-> est.epsilon_]

\* epsilon_ = 0: every feature has one value over all the rows fitted on, so
\* every var_ entry is 0 and the joint log likelihood of every class is
\* inf - inf or 0/0, not a number
Degenerate(est) == est.epsilon_[1] = 0

\* GaussianNB().fit(X_train, y_train): classes_ and the parameters, which
\* are a function of the rows fitted on; epsilon_ is written as its factor
\* np.var(X, axis=0).max()
Fit(train) ==
    [classes_ |-> Unique(train), train |-> train,
     epsilon_ |-> MaxRat({ VarOf(train, i) : i \in 1..NumFeatures })]

\* joint likelihood of class c at the feature vector f under est, in whole
\* units: every class of classes_ has a positive one, and classes fitted on
\* the same feature vectors have the same one
Weight(est, c, f) ==
    1 + Cardinality({ k \in 1..Len(est.train) :
                        est.train[k].label = c /\ est.train[k].features = f })

Weights(est, f) == [k \in 1..Len(est.classes_) |-> Weight(est, est.classes_[k], f)]

SumSeq(w) == IF Len(w) = 0 THEN 0
             ELSE IF Len(w) = 1 THEN w[1]
             ELSE IF Len(w) = 2 THEN w[1] + w[2]
             ELSE w[1] + w[2] + w[3]

MaxOf(w) == CHOOSE m \in { w[k] : k \in 1..Len(w) } : \A k \in 1..Len(w) : w[k] <= m

\* np.argmax: the first index that holds the maximum
ArgMax(w) == CHOOSE k \in 1..Len(w) :
                w[k] = MaxOf(w) /\ \A j \in 1..(k - 1) : w[j] < w[k]

\* fractions <<numerator, denominator>>; not-a-number is written 0/0 and,
\* as for floats, compares equal to nothing and below nothing
Zero == <<0, 1>>
NaN == <<0, 0>>
RatEq(a, b) == a[2] # 0 /\ b[2] # 0 /\ a[1] * b[2] = b[1] * a[2]
RatLeq(a, b) == a[2] # 0 /\ b[2] # 0 /\ a[1] * b[2] <= b[1] * a[2]

\* self.model.predict(X)[0]: np.argmax over likelihoods that are all
\* not-a-number is position 0
PredictLabel(est, f) ==
    IF Degenerate(est) THEN est.classes_[1]
    ELSE est.classes_[ArgMax(Weights(est, f))]

\* self.model.predict_proba(X)[0]
PredictProba(est, f) ==
    [k \in 1..Len(est.classes_) |->
        IF Degenerate(est) THEN NaN
        ELSE <<Weights(est, f)[k], SumSeq(Weights(est, f))>>]

\* line 186: float(max(probabilities)); max keeps its first element when no
\* later one compares greater
Confidence(est, f) ==
    IF Degenerate(est) THEN NaN
    ELSE <<MaxOf(Weights(est, f)), SumSeq(Weights(est, f))>>

\* lines 181-183: the class names the probabilities are filed under
ProbNames(est) == est.classes_

\* prob_dict.get(name, 0.0)
ProbOf(est, f, name) ==
    IF \E k \in 1..Len(est.classes_) : ProbNames(est)[k] = name
    THEN PredictProba(est, f)[CHOOSE k \in 1..Len(est.classes_) :
                                 ProbNames(est)[k] = name]
    ELSE Zero

\* lines 177-198
NoAnswer == [status |-> "none", predicted_level |-> "none", confidence |-> Zero,
             probabilities |-> [c \in {"ringan", "sedang", "berat"} |-> Zero]]

PredictDict(est, f) ==
    [status |-> "ok",
     predicted_level |-> PredictLabel(est, f),
     confidence |-> Confidence(est, f),
     probabilities |-> [c \in {"ringan", "sedang", "berat"} |-> ProbOf(est, f, c)]]

\* lines 227-235: classes, priors, means and variances, each indexed as
\* classes_ is
NoInfo == [status |-> "none", class_count |-> 0, classes |-> <<>>,
           class_prior |-> <<>>, theta |-> <<>>, var |-> <<>>]

ModelInfoDict(est) ==
    [status |-> "ok",
     class_count |-> Len(est.classes_),
     classes |-> est.classes_,
     class_prior |-> [k \in 1..Len(est.classes_) |->
                        ClassPrior(est, est.classes_[k])],
     theta |-> [k \in 1..Len(est.classes_) |->
                  LET rows == ClassRows(est, est.classes_[k]) IN
                  [j \in 1..NumFeatures |->
                     <<Sum([i \in 1..Len(rows) |-> rows[i].features[j]]),
                       Len(rows)>>]],
     var |-> [k \in 1..Len(est.classes_) |->
                [j \in 1..NumFeatures |-> VarEntry(est, est.classes_[k], j)]]]

\* line 132: confusion_matrix(y_test, y_pred, labels=self.CLASSES)
ConfusionLabelsSorted == SortedLabels
ConfusionLabels == CLASSES

ConfusionMatrix(yt, yp) ==
    [i \in 1..Len(ConfusionLabels) |->
       [j \in 1..Len(ConfusionLabels) |->
          Cardinality({ k \in 1..Len(yt) :
              yt[k] = ConfusionLabels[i] /\ yp[k] = ConfusionLabels[j] })]]

\* line 123: accuracy_score(y_test, y_pred), a fraction
AccuracyScoreCount(yt, yp) ==
    <<Cardinality({ k \in 1..Len(yt) : yt[k] = yp[k] }), 1>>
AccuracyScore(yt, yp) ==
    <<Cardinality({ k \in 1..Len(yt) : yt[k] = yp[k] }), Len(yt)>>

\* lines 124-129, per class: true positives, rows predicted as the class
\* and rows of the class (precision = tp / predicted, recall = tp / support,
\* f1 = 2 tp / (predicted + support), averaged with weight support)
PerClass(yt, yp) ==
    [c \in {"ringan", "sedang", "berat"} |->
       [tp |-> Cardinality({ k \in 1..Len(yt) : yt[k] = c /\ yp[k] = c }),
        predicted |-> Cardinality({ k \in 1..Len(yt) : yp[k] = c }),
        support |-> Cardinality({ k \in 1..Len(yt) : yt[k] = c })]]

NoReport == [status |-> "none"]

\* lines 110-155 on rows: split, fit, predict the test partition, score
Evaluate(in, seed) ==
    LET train == Pick(RowsOf(in), InOrder(TrainIdx(RowsOf(in), in.pct, seed)))
        test == Pick(RowsOf(in), InOrder(TestIdx(RowsOf(in), in.pct, seed)))
        est == Fit(train)
        y_test == [k \in 1..Len(test) |-> test[k].label]
        y_pred == [k \in 1..Len(test) |-> PredictLabel(est, test[k].features)]
    IN  [status |-> "ok", on |-> in,
         training_samples |-> Len(train), test_samples |-> Len(test),
         test_rows |-> InOrder(TestIdx(RowsOf(in), in.pct, seed)),
         y_test |-> y_test, y_pred |-> y_pred,
         accuracy |-> AccuracyScore(y_test, y_pred),
         per_class |-> PerClass(y_test, y_pred),
         confusion_matrix |-> ConfusionMatrix(y_test, y_pred)]

FitOf(in, seed) ==
    Fit(Pick(RowsOf(in), InOrder(TrainIdx(RowsOf(in), in.pct, seed))))

\* the seeds a generator can have here: the fixed one, and the states of
\* numpy's global generator
Seeds == {RandomStateSeed} \cup 0..MaxTrains

\* Evaluate and FitOf, tabulated
Evaluated == [in \in AllInputs, seed \in Seeds |-> Evaluate(in, seed)]
Fitted == [in \in AllInputs, seed \in Seeds |-> FitOf(in, seed)]

EvalError(in, s) == [status |-> s, on |-> in]


(* ------------------------------ Init ---------------------------------- *)
Init ==
    /\ model = NoModel
    /\ is_trained = FALSE
    /\ last_trained_at = 0
    /\ training_samples = 0
    /\ disk = NoFile
    /\ metrics = <<>>
    /\ history = <<>>
    /\ fits = 0
    /\ running = NoTask
    /\ tpc = [t \in TrainIds |-> "idle"]
    /\ tl = [t \in TrainIds |-> IdleTrain]
    /\ ppc = [p \in PredictIds |-> "idle"]
    /\ pl = [p \in PredictIds |-> IdlePredict]
    /\ lastTrain = NoTrainResp
    /\ resp = NoResp
    /\ boot = "absent"
    /\ restarts = 0
    /\ trainedOnce = FALSE
    /\ estimator = [classes_ |-> <<>>, train |-> <<>>, epsilon_ |-> <<0, 1>>]
    /\ report = NoReport
    /\ seen = [in \in AllInputs |->
                 [report |-> NoReport, first_at |-> 0, times |-> 0]]
    /\ np_random = 0
    /\ answer = NoAnswer
    /\ info = NoInfo
    /\ spc = IdleStatus
    /\ records = <<>>
    /\ created = NoCreated

(* ------------------------------ train --------------------------------- *)
\* the call ends (by return or by an exception that unwinds to the caller):
\* its response is r, its slot and the loop are freed
TrainEnds(t, r) ==
    /\ tpc' = [tpc EXCEPT ![t] = "idle"]
    /\ tl' = [tl EXCEPT ![t] = IdleTrain]
    /\ lastTrain' = r
    /\ resp' = NoResp
    /\ running' = NoTask

\* POST /predictions/train: train_model awaits get_training_data
TrainRequest(t) ==
    /\ tpc[t] = "idle"
    /\ Resumable(TTask(t))
    /\ fits < MaxFits
    /\ tpc' = [tpc EXCEPT ![t] = "await_data"]
    /\ tl' = [tl EXCEPT ![t].via = "http"]
    /\ running' = NoTask
    /\ UNCHANGED <<svc, disk, metrics, history, fits, ppc, pl, lastTrain, resp,
                   boot, restarts, trainedOnce>>
    /\ UNCHANGED evalVars

\* get_training_data returns the rows of damage_records
TrainGotData(t, in) ==
    /\ tpc[t] = "await_data"
    /\ Resumable(TTask(t))
    /\ fits < MaxFits
    /\ tpc' = [tpc EXCEPT ![t] = "route_check"]
    /\ tl' = [tl EXCEPT ![t].data = in.data, ![t].pct = in.pct,
                        ![t].prev = Installed, ![t].prevDisk = disk]
    /\ running' = TTask(t)
    /\ UNCHANGED <<svc, disk, metrics, history, fits, ppc, pl, lastTrain, resp,
                   boot, restarts, trainedOnce>>
    /\ UNCHANGED evalVars

\* model_metrics_service.py 39-43
RouteCheck(t) ==
    /\ tpc[t] = "route_check"
    /\ Scheduled(TTask(t))
    /\ IF Size(tl[t].data) < MinSamplesRoute
       THEN TrainEnds(t, TrainError(t, ErrRouteTooFew, "size"))
       ELSE /\ tpc' = [tpc EXCEPT ![t] = "nb_check"]
            /\ UNCHANGED <<tl, lastTrain, resp, running>>
    /\ UNCHANGED <<svc, disk, metrics, history, fits, ppc, pl, boot, restarts,
                   trainedOnce>>
    /\ UNCHANGED evalVars

\* naive_bayes_service.train(features, labels, test_size) called directly
TrainCall(t, in) ==
    /\ tpc[t] = "idle"
    /\ Resumable(TTask(t))
    /\ fits < MaxFits
    /\ tpc' = [tpc EXCEPT ![t] = "nb_check"]
    /\ tl' = [tl EXCEPT ![t].via = "service", ![t].data = in.data,
                        ![t].pct = in.pct, ![t].prev = Installed,
                        ![t].prevDisk = disk]
    /\ running' = TTask(t)
    /\ UNCHANGED <<svc, disk, metrics, history, fits, ppc, pl, lastTrain, resp,
                   boot, restarts, trainedOnce>>
    /\ UNCHANGED evalVars

\* NaiveBayesService.train, line 103
NBCheck(t) ==
    /\ tpc[t] = "nb_check"
    /\ Scheduled(TTask(t))
    /\ IF TooFew(tl[t].data)
       THEN TrainEnds(t, TrainError(t, ErrTooFew, "size"))
       ELSE /\ tpc' = [tpc EXCEPT ![t] = StmtAfter("nb_check")]
            /\ UNCHANGED <<tl, lastTrain, resp, running>>
    /\ UNCHANGED <<svc, disk, metrics, history, fits, ppc, pl, boot, restarts,
                   trainedOnce>>
    /\ UNCHANGED evalVars

\* lines 106-113: train_test_split(..., stratify=y)
NBSplit(t) ==
    /\ tpc[t] = "split"
    /\ Scheduled(TTask(t))
    /\ IF SplitFails(tl[t].data, tl[t].pct)
       THEN TrainEnds(t, TrainError(t, ErrSplit, "split"))
       ELSE /\ tpc' = [tpc EXCEPT ![t] = StmtAfter("split")]
            /\ UNCHANGED <<tl, lastTrain, resp, running>>
    /\ UNCHANGED <<svc, disk, metrics, history, fits, ppc, pl, boot, restarts,
                   trainedOnce>>
    /\ UNCHANGED evalVars

\* line 116: self.model = GaussianNB()
NBAlloc(t) ==
    /\ tpc[t] = "alloc"
    /\ Scheduled(TTask(t))
    /\ fits' = fits + 1
    /\ model' = NewModel(fits + 1)
    /\ tl' = [tl EXCEPT ![t].gen = fits + 1]
    /\ tpc' = [tpc EXCEPT ![t] = StmtAfter("alloc")]
    /\ UNCHANGED <<is_trained, last_trained_at, training_samples, disk, metrics,
                   history, running, ppc, pl, lastTrain, resp, boot, restarts,
                   trainedOnce>>
    /\ UNCHANGED evalVars

\* line 117: self.model.fit(X_train, y_train); fit validates that X is finite
NBFit(t) ==
    /\ tpc[t] = "fit"
    /\ Scheduled(TTask(t))
    /\ IF tl[t].data.nonfinite = "train"
       THEN /\ TrainEnds(t, TrainError(t, ErrNonFinite, "fit"))
            /\ UNCHANGED model
       ELSE /\ model' = [model EXCEPT !.fitted = TRUE]
            /\ tpc' = [tpc EXCEPT ![t] = StmtAfter("fit")]
            /\ UNCHANGED <<tl, lastTrain, resp, running>>
    /\ UNCHANGED <<is_trained, last_trained_at, training_samples, disk, metrics,
                   history, fits, ppc, pl, boot, restarts, trainedOnce>>
    /\ UNCHANGED evalVars

\* lines 119-132: predict the test partition and score the predictions
NBEval(t) ==
    /\ tpc[t] = "eval"
    /\ Scheduled(TTask(t))
    /\ IF tl[t].data.nonfinite = "test"
       THEN /\ TrainEnds(t, TrainError(t, ErrNonFinite, "eval"))
            /\ UNCHANGED model
       ELSE /\ model' = [model EXCEPT !.scored = TRUE]
            /\ tpc' = [tpc EXCEPT ![t] = StmtAfter("eval")]
            /\ UNCHANGED <<tl, lastTrain, resp, running>>
    /\ UNCHANGED <<is_trained, last_trained_at, training_samples, disk, metrics,
                   history, fits, ppc, pl, boot, restarts, trainedOnce>>
    /\ UNCHANGED evalVars

\* lines 134-137: is_trained, last_trained_at, training_samples; the time
\* of the n-th fit is written n
NBSwap(t) ==
    /\ tpc[t] = "swap"
    /\ Scheduled(TTask(t))
    /\ is_trained' = TRUE
    /\ last_trained_at' = tl[t].gen
    /\ training_samples' = NTrain(tl[t].data, tl[t].pct)
    /\ tpc' = [tpc EXCEPT ![t] = StmtAfter("swap")]
    /\ UNCHANGED <<model, disk, metrics, history, fits, running, tl, ppc, pl,
                   lastTrain, resp, boot, restarts, trainedOnce>>
    /\ UNCHANGED evalVars

\* _save_model: open(MODEL_PATH, "wb") truncates the file, pickle.dump
\* writes it; any exception is logged and re-raised
SaveModel(o) ==
    CASE o = "ok" -> Pickle(model, last_trained_at, training_samples)
      [] o = "open_fails" -> disk
      [] o = "dump_fails" -> CorruptFile

\* line 140: self._save_model()
NBSave(t, o) ==
    /\ tpc[t] = "save"
    /\ Scheduled(TTask(t))
    /\ disk' = SaveModel(o)
    /\ IF o = "ok"
       THEN /\ tpc' = [tpc EXCEPT ![t] = StmtAfter("save")]
            /\ tl' = [tl EXCEPT ![t].save = o]
            /\ UNCHANGED <<lastTrain, resp, running>>
       ELSE TrainEnds(t, [TrainError(t, "OSError", "save") EXCEPT !.save = o])
    /\ UNCHANGED <<svc, metrics, history, fits, ppc, pl, boot, restarts,
                   trainedOnce>>
    /\ UNCHANGED evalVars

\* lines 144-155: train returns its dict; train_model adds the ModelMetrics
\* row and awaits db.commit()
NBReturn(t) ==
    /\ tpc[t] = "return"
    /\ Scheduled(TTask(t))
    /\ trainedOnce' = TRUE
    /\ IF tl[t].via = "http"
       THEN /\ tpc' = [tpc EXCEPT ![t] = "await_commit"]
            /\ running' = NoTask
            /\ UNCHANGED <<tl, lastTrain, resp>>
       ELSE TrainEnds(t, TrainReport(t))
    /\ UNCHANGED <<svc, disk, metrics, history, fits, ppc, pl, boot, restarts>>
    /\ UNCHANGED evalVars

\* db.add(row); await db.commit(): the row is in the table when the commit
\* succeeds and the transaction is lost when it raises
CommitRowNoRollback(rows, row, committed) == Append(rows, row)
CommitRow(rows, row, committed) == IF committed THEN Append(rows, row) ELSE rows

\* model_metrics_service.py 46-64: the ModelMetrics row built from the dict
\* train returned (`by` stands for the metric values of that evaluation)
\* and its commit
TrainCommit(t, committed) ==
    /\ tpc[t] = "await_commit"
    /\ Resumable(TTask(t))
    /\ metrics' = CommitRow(metrics,
                          [by |-> TrainReport(t).gen,
                           training_samples |->
                               TrainReport(t).training_samples],
                          committed)
    /\ IF committed
       THEN TrainEnds(t, TrainReport(t))
       ELSE TrainEnds(t, TrainError(t, ErrCommit, "commit"))
    /\ UNCHANGED <<svc, disk, history, fits, ppc, pl, boot, restarts, trainedOnce>>
    /\ UNCHANGED evalVars


(* ----------------------------- predict -------------------------------- *)
\* naive_bayes_service.py:170
BadLengthMutant(f) == Len(f) < NumFeatures
BadLength(f) == Len(f) # NumFeatures

\* naive_bayes_service.py:167
Untrained(inst) == ~inst.is_trained \/ inst.model = NoModel

\* naive_bayes_service.py:224
InfoUntrainedMutant(inst) == inst.model = NoModel
InfoUntrained(inst) == ~inst.is_trained \/ inst.model = NoModel

PredictResult(s, by, x) == [status |-> s, by |-> by, x |-> x]

\* NaiveBayesService.predict against the singleton's fields `inst`;
\* GaussianNB.predict raises NotFittedError on an estimator that was never fit
PredictOn(inst, f) ==
    IF Untrained(inst) THEN PredictResult(ErrNotTrained, 0, <<>>)
    ELSE IF BadLength(f) THEN PredictResult(ErrLength, 0, <<>>)
    ELSE IF ~IsFitted(inst.model) THEN PredictResult("NotFittedError", 0, <<>>)
    ELSE PredictResult("ok", inst.model.by, f)

\* the train call, if any, that is in split / fit / evaluate
FittingNow == IF \E t \in TrainIds : InFitPhase(t)
              THEN CHOOSE t \in TrainIds : InFitPhase(t) ELSE 0

PredictResp(p, r) ==
    [NoResp EXCEPT !.op = "predict", !.via = pl[p].via, !.status = r.status,
                   !.by = r.by, !.x = r.x, !.len = Len(pl[p].features),
                   !.during = pl[p].during, !.before = pl[p].before,
                   !.waited = pl[p].waited]

\* the call ends with result r
PredictEnds(p, r) ==
    /\ ppc' = [ppc EXCEPT ![p] = "idle"]
    /\ pl' = [pl EXCEPT ![p] = IdlePredict]
    /\ resp' = [PredictResp(p, r) EXCEPT
                    !.waited = IF ppc[p] = "arrived" /\ pl[p].during # 0
                               THEN ~InFitPhase(pl[p].during) ELSE pl[p].waited]

\* a predict request reaches the server (it is served when the loop is free);
\* during / before note the train call that is fitting at that moment and
\* the fitted model that was installed when that train call began
PredictArrive(p, via, f, sh) ==
    /\ ppc[p] = "idle"
    /\ via = "http" => Len(f) = NumFeatures   \* PredictionRequest has 7 fields
    /\ via = "service" => sh = FALSE
    /\ ppc' = [ppc EXCEPT ![p] = "arrived"]
    /\ pl' = [pl EXCEPT ![p] = [IdlePredict EXCEPT !.via = via, !.features = f,
                  !.save_history = sh, !.during = FittingNow,
                  !.before = IF FittingNow = 0 THEN 0
                             ELSE FittedBy(tl[FittingNow].prev)]]
    /\ UNCHANGED <<svc, disk, metrics, history, fits, running, tpc, tl,
                   lastTrain, resp, boot, restarts, trainedOnce>>
    /\ UNCHANGED evalVars

\* naive_bayes_service.predict(features) called directly
PredictCall(p) ==
    /\ ppc[p] = "arrived"
    /\ pl[p].via = "service"
    /\ Resumable(PTask(p))
    /\ PredictEnds(p, PredictOn(Installed, pl[p].features))
    /\ UNCHANGED <<svc, disk, metrics, history, fits, running, tpc, tl,
                   lastTrain, boot, restarts, trainedOnce>>
    /\ UNCHANGED evalVars

\* POST /predictions/predict, lines 51-59: is_trained check, then the
\* component lookup is awaited
PredictRequest(p) ==
    /\ ppc[p] = "arrived"
    /\ pl[p].via = "http"
    /\ Resumable(PTask(p))
    /\ IF ~is_trained
       THEN PredictEnds(p, PredictResult(Http400NotTrained, 0, <<>>))
       ELSE /\ ppc' = [ppc EXCEPT ![p] = "await_component"]
            /\ pl' = [pl EXCEPT ![p].waited =
                         pl[p].during # 0 /\ ~InFitPhase(pl[p].during)]
            /\ UNCHANGED resp
    /\ UNCHANGED <<svc, disk, metrics, history, fits, running, tpc, tl,
                   lastTrain, boot, restarts, trainedOnce>>
    /\ UNCHANGED evalVars

\* lines 60-68 and PredictionService.predict up to its await db.commit()
PredictGotComponent(p, found) ==
    /\ ppc[p] = "await_component"
    /\ Resumable(PTask(p))
    /\ LET r == PredictOn(Installed, pl[p].features) IN
       IF ~found
       THEN PredictEnds(p, PredictResult(Http404Component, 0, <<>>))
       ELSE IF r.status = "ok" /\ pl[p].save_history
       THEN /\ Len(history) < MaxHistory
            /\ ppc' = [ppc EXCEPT ![p] = "await_commit"]
            /\ pl' = [pl EXCEPT ![p].result = r.status, ![p].by = r.by]
            /\ UNCHANGED resp
       ELSE PredictEnds(p, r)
    /\ UNCHANGED <<svc, disk, metrics, history, fits, running, tpc, tl,
                   lastTrain, boot, restarts, trainedOnce>>
    /\ UNCHANGED evalVars

\* prediction_service.py 54-67: the PredictionHistory row, built from the
\* request and from the dict naive_bayes_service.predict returned; the model
\* that answered and the vector it was given stand for the predicted
\* level, confidence and probabilities
HistoryRowAtCommit(p) == [by |-> FittedBy(Installed), x |-> pl[p].features]
HistoryRow(p) == [by |-> pl[p].by, x |-> pl[p].features]

\* prediction_service.py 69-74: commit of the PredictionHistory row
PredictCommit(p, committed) ==
    /\ ppc[p] = "await_commit"
    /\ Resumable(PTask(p))
    /\ history' = CommitRow(history, HistoryRow(p), committed)
    /\ IF committed
       THEN PredictEnds(p, PredictResult("ok", pl[p].by, pl[p].features))
       ELSE PredictEnds(p, PredictResult(ErrCommit, 0, <<>>))
    /\ UNCHANGED <<svc, disk, metrics, fits, running, tpc, tl,
                   lastTrain, boot, restarts, trainedOnce>>
    /\ UNCHANGED evalVars

(* ------------------------ model-info and status ----------------------- *)
\* NaiveBayesService.get_model_info: an {"error": ...} dict when untrained;
\* classes_ does not exist before fit
GetModelInfo(inst) ==
    IF InfoUntrained(inst) THEN PredictResult(InfoErrorDict, 0, <<>>)
    ELSE IF ~IsFitted(inst.model) THEN PredictResult("AttributeError", 0, <<>>)
    ELSE PredictResult("ok", inst.model.by, <<>>)

\* GET /predictions/model-info: HTTP 400 when is_trained is false
RouteModelInfo(inst) ==
    IF ~inst.is_trained THEN PredictResult(Http400NotTrained, 0, <<>>)
    ELSE GetModelInfo(inst)

\* NaiveBayesService.get_status
GetStatusFitted(inst) ==
    [NoResp EXCEPT !.op = "status", !.via = "service", !.status = "ok",
         !.is_trained = inst.is_trained /\ IsFitted(inst.model),
         !.training_samples = IF inst.is_trained THEN inst.training_samples ELSE 0,
         !.last_trained_at = inst.last_trained_at]
GetStatus(inst) ==
    [NoResp EXCEPT !.op = "status", !.via = "service", !.status = "ok",
         !.is_trained = inst.is_trained,
         !.training_samples = IF inst.is_trained THEN inst.training_samples ELSE 0,
         !.last_trained_at = inst.last_trained_at]

ModelInfoCall(via) ==
    /\ Resumable(NoTask)
    /\ LET r == IF via = "http" THEN RouteModelInfo(Installed)
                                ELSE GetModelInfo(Installed) IN
       resp' = [NoResp EXCEPT !.op = "info", !.via = via, !.status = r.status,
                              !.by = r.by, !.x = r.x]
    /\ UNCHANGED <<svc, disk, metrics, history, fits, running, tpc, tl, ppc, pl,
                   lastTrain, boot, restarts, trainedOnce>>
    /\ UNCHANGED evalVars

StatusCall ==
    /\ Resumable(NoTask)
    /\ resp' = GetStatus(Installed)
    /\ UNCHANGED <<svc, disk, metrics, history, fits, running, tpc, tl, ppc, pl,
                   lastTrain, boot, restarts, trainedOnce>>
    /\ UNCHANGED evalVars

\* GET /predictions/model-status, model_metrics_service.py 109-112:
\* get_status(), then get_latest is awaited
StatusRequest ==
    /\ spc.pc = "idle"
    /\ Resumable(NoTask)
    /\ spc' = [pc |-> "await_latest",
               status |-> [GetStatus(Installed) EXCEPT !.via = "http"]]
    /\ UNCHANGED <<svc, disk, metrics, history, fits, running, tpc, tl, ppc, pl,
                   lastTrain, resp, boot, restarts, trainedOnce, estimator,
                   report, seen, np_random, answer, info>>
    /\ UNCHANGED <<records, created>>

\* lines 113-116: the accuracy of the latest row, if there is one.
\* get_latest gives the row committed last, None (0) when the table is
\* empty; the accuracy of a row is written as the evaluation run it
\* belongs to
StatusGotLatest ==
    /\ spc.pc = "await_latest"
    /\ Resumable(NoTask)
    /\ resp' = [spc.status EXCEPT
                  !.accuracy = IF metrics = <<>> THEN 0
                               ELSE metrics[Len(metrics)].by]
    /\ spc' = IdleStatus
    /\ UNCHANGED <<svc, disk, metrics, history, fits, running, tpc, tl, ppc, pl,
                   lastTrain, boot, restarts, trainedOnce, estimator,
                   report, seen, np_random, answer, info>>
    /\ UNCHANGED <<records, created>>

(* -------------------------- damage records ---------------------------- *)
\* damage_level strings a client can send, one per record
LevelInputs == {"Ringan", "Sedang", "Berat", "ringan", "berat", "RINGAN"}

\* DamageRecordBase.damage_level: the pattern and validate_damage_level
validate_damage_level(v) == v \in {"Ringan", "Sedang", "Berat"}

\* the DamageLevel enum: DamageLevel(v) looks the member up by its value
\* and raises ValueError when no member has that value
DamageLevelValues == {"ringan", "sedang", "berat"}
DamageLevel(v) ==
    IF v \in DamageLevelValues THEN [ok |-> TRUE, value |-> v]
    ELSE [ok |-> FALSE, value |-> "ValueError: not a valid DamageLevel"]

\* the steps of every other part of the service
otherVars ==
    <<svc, disk, metrics, history, fits, running, tpc, tl, ppc, pl, lastTrain,
      resp, boot, restarts, trainedOnce, estimator, report, seen, np_random,
      answer, info, spc>>

\* POST /damage-records/ with damage_level v: the body is validated, the
\* component is looked up, then DamageRecordService.create builds the row,
\* adds it and commits
CreateRecord(v, found, committed) ==
    /\ Len(records) < MaxRecords
    /\ LET lv == DamageLevel(v)
           st == IF ~validate_damage_level(v) THEN "HTTP 422: validation error"
                 ELSE IF ~found THEN Http404Component
                 ELSE IF ~lv.ok THEN lv.value
                 ELSE IF ~committed THEN ErrCommit
                 ELSE "ok"
       IN
       /\ records' = IF validate_damage_level(v) /\ found /\ lv.ok
                        THEN CommitRow(records, [damage_level |-> lv.value],
                                       committed)
                     ELSE records
       /\ created' = [NoCreated EXCEPT !.op = "create", !.levels = <<v>>,
                                       !.found = found,
                                       !.committed = committed,
                                       !.status = st,
                                       !.success_count =
                                           IF st = "ok" THEN 1 ELSE 0]
    /\ UNCHANGED otherVars

\* the rows of a bulk import whose value is not among `accepted`, as
\* (row number, value) in row order; the first row has number `first`
RowErrors(vs, first, accepted) ==
    LET all == [i \in 1..Len(vs) |-> [row |-> i + first - 1, level |-> vs[i]]]
    IN SelectSeq(all, LAMBDA e : e.level \notin accepted)

\* POST /damage-records/bulk-import with one csv row per element of vs
\* (all components known): the route builds a DamageRecordCreate per row
\* and reports the rows that fail validation, then
\* DamageRecordService.bulk_create converts and adds the others one by one
\* and commits when at least one was added
BulkCreate(vs, committed) ==
    /\ Len(records) + Len(vs) <= MaxRecords
    /\ LET route_errors ==
               RowErrors(vs, 2, { v \in LevelInputs : validate_damage_level(v) })
           valid == SelectSeq(vs, validate_damage_level)
           bulk_errors ==
               RowErrors(valid, 1, { v \in LevelInputs : DamageLevel(v).ok })
           added == SelectSeq(valid, LAMBDA v : DamageLevel(v).ok)
           success_count == Len(added)
           rows == [i \in 1..success_count |->
                       [damage_level |-> DamageLevel(added[i]).value]]
           errors == route_errors \o bulk_errors
           raised == success_count > 0 /\ ~committed
       IN
       /\ records' = IF success_count > 0 /\ committed THEN records \o rows
                     ELSE records
       /\ created' = [NoCreated EXCEPT
                         !.op = "bulk", !.levels = vs, !.found = TRUE,
                         !.committed = committed,
                         !.status = IF raised THEN ErrCommit ELSE "ok",
                         !.success_count = IF raised THEN 0 ELSE success_count,
                         !.error_count = IF raised THEN 0 ELSE Len(errors),
                         !.errors = IF raised THEN <<>> ELSE errors]
    /\ UNCHANGED otherVars

(* ----------------------------- restart -------------------------------- *)
\* NaiveBayesService.__init__ followed by _load_model, on the file f
LoadModelDropsSamples(f) ==
    IF f.kind = "pickle"
    THEN [model |-> f.model, is_trained |-> TRUE,
          last_trained_at |-> f.trained_at, training_samples |-> 0]
    ELSE NoInstalled
LoadModelTrainedAlways(f) ==
    IF f.kind = "pickle"
    THEN [model |-> f.model, is_trained |-> TRUE,
          last_trained_at |-> f.trained_at,
          training_samples |-> f.training_samples]
    ELSE [NoInstalled EXCEPT !.is_trained = TRUE]
LoadModelCorruptTrained(f) ==
    IF f.kind = "pickle"
    THEN [model |-> f.model, is_trained |-> TRUE,
          last_trained_at |-> f.trained_at,
          training_samples |-> f.training_samples]
    ELSE IF f.kind = "corrupt" THEN [NoInstalled EXCEPT !.is_trained = TRUE]
    ELSE NoInstalled
LoadModel(f) ==
    IF f.kind = "pickle"
    THEN [model |-> f.model, is_trained |-> TRUE,
          last_trained_at |-> f.trained_at,
          training_samples |-> f.training_samples]
    ELSE NoInstalled

\* the process is stopped with no request in flight and started again
Restart ==
    /\ restarts < MaxRestarts
    /\ running = NoTask
    /\ \A t \in TrainIds : tpc[t] = "idle"
    /\ \A p \in PredictIds : ppc[p] = "idle"
    /\ spc.pc = "idle"
    /\ restarts' = restarts + 1
    /\ model' = LoadModel(disk).model
    /\ is_trained' = LoadModel(disk).is_trained
    /\ last_trained_at' = LoadModel(disk).last_trained_at
    /\ training_samples' = LoadModel(disk).training_samples
    /\ boot' = disk.kind
    /\ trainedOnce' = FALSE
    /\ lastTrain' = NoTrainResp
    /\ resp' = NoResp
    /\ UNCHANGED <<disk, metrics, history, fits, running, tpc, tl, ppc, pl>>
    /\ UNCHANGED evalVars

(* ------------------- train and predict on rows ------------------------ *)
\* NaiveBayesService.train(features, labels, test_size) from line 101 to its
\* return or raise, run without interruption (it has no await); o is what
\* becomes of _save_model
Train(in, o) ==
    /\ running = NoTask
    /\ \A t \in TrainIds : tpc[t] = "idle"
    /\ LET d == Counts(RowsOf(in))
           rs == RandomState(np_random)
           failed(s, at) ==
               [status |-> s, at |-> at, before |-> FittedBy(Installed),
                gen |-> 0, training_samples |-> 0, test_samples |-> 0,
                save |-> "none"]
       IN
       IF TooFew(d) \/ SplitFails(d, in.pct)
       THEN /\ o = "ok"
            /\ report' = EvalError(in, IF TooFew(d) THEN ErrTooFew ELSE ErrSplit)
            /\ lastTrain' = IF TooFew(d) THEN failed(ErrTooFew, "size")
                                         ELSE failed(ErrSplit, "split")
            /\ UNCHANGED <<svc, disk, fits, estimator, seen, np_random,
                           trainedOnce>>
       ELSE /\ fits < MaxTrains
            /\ fits' = fits + 1
            /\ np_random' = IF rs.global THEN np_random + 1 ELSE np_random
            /\ model' = [NewModel(fits + 1) EXCEPT !.fitted = TRUE, !.scored = TRUE]
            /\ estimator' = Fitted[in, rs.seed]
            /\ is_trained' = TRUE
            /\ last_trained_at' = fits + 1
            /\ training_samples' = Len(estimator'.train)
            /\ disk' = CASE o = "ok" ->
                              Pickle(model', last_trained_at', training_samples')
                         [] o = "open_fails" -> disk
                         [] o = "dump_fails" -> CorruptFile
            /\ IF o = "ok"
               THEN /\ report' = Evaluated[in, rs.seed]
                    /\ seen' = [seen EXCEPT ![in] =
                                  [report |-> IF @.times = 0 THEN report'
                                              ELSE @.report,
                                   first_at |-> IF @.times = 0 THEN fits + 1
                                                ELSE @.first_at,
                                   times |-> @.times + 1]]
                    /\ trainedOnce' = TRUE
                    /\ lastTrain' =
                          [status |-> "ok", at |-> "return",
                           before |-> FittedBy(Installed), gen |-> fits + 1,
                           training_samples |-> report'.training_samples,
                           test_samples |-> report'.test_samples, save |-> o]
               ELSE /\ report' = EvalError(in, "OSError")
                    /\ lastTrain' =
                          [failed("OSError", "save") EXCEPT !.gen = fits + 1,
                                                            !.save = o]
                    /\ UNCHANGED <<seen, trainedOnce>>
    /\ resp' = NoResp
    /\ UNCHANGED <<metrics, history, running, tpc, tl, ppc, pl, boot, restarts,
                   answer, info, spc>>
    /\ UNCHANGED <<records, created>>

\* NaiveBayesService.predict(features), lines 167-198
Predict(f) ==
    /\ running = NoTask
    /\ answer' = IF Untrained(Installed)
                    THEN [NoAnswer EXCEPT !.status = ErrNotTrained]
                 ELSE IF BadLength(f) THEN [NoAnswer EXCEPT !.status = ErrLength]
                 ELSE PredictDict(estimator, f)
    /\ UNCHANGED <<svc, disk, metrics, history, fits, running, tpc, tl, ppc, pl,
                   lastTrain, resp, boot, restarts, trainedOnce, estimator,
                   report, seen, np_random, info, spc>>
    /\ UNCHANGED <<records, created>>

\* NaiveBayesService.get_model_info(), lines 224-235
ModelInfo ==
    /\ running = NoTask
    /\ info' = IF InfoUntrained(Installed)
                  THEN [NoInfo EXCEPT !.status = InfoErrorDict]
               ELSE ModelInfoDict(estimator)
    /\ UNCHANGED <<svc, disk, metrics, history, fits, running, tpc, tl, ppc, pl,
                   lastTrain, resp, boot, restarts, trainedOnce, estimator,
                   report, seen, np_random, answer, spc>>
    /\ UNCHANGED <<records, created>>

(* ------------------------------- Next --------------------------------- *)
\* Calls made directly on the singleton, one after the other, and restarts.
Next ==
    \/ \E in \in TrainInputs : TrainCall(1, in)
    \/ NBCheck(1)
    \/ NBSplit(1)
    \/ NBAlloc(1)
    \/ NBFit(1)
    \/ NBEval(1)
    \/ NBSwap(1)
    \/ \E o \in SaveOutcomes : NBSave(1, o)
    \/ NBReturn(1)
    \/ \E p \in PredictIds, f \in FeatureVectors : PredictArrive(p, "service", f, FALSE)
    \/ \E p \in PredictIds : PredictCall(p)
    \/ \E via \in {"http", "service"} : ModelInfoCall(via)
    \/ StatusCall
    \/ Restart

Spec == Init /\ [][Next]_vars

\* The /predictions routes served concurrently by the event loop.
NextHttp ==
    \/ \E t \in TrainIds : TrainRequest(t)
    \/ \E t \in TrainIds, in \in HttpInputs : TrainGotData(t, in)
    \/ \E t \in TrainIds : RouteCheck(t)
    \/ \E t \in TrainIds : NBCheck(t)
    \/ \E t \in TrainIds : NBSplit(t)
    \/ \E t \in TrainIds : NBAlloc(t)
    \/ \E t \in TrainIds : NBFit(t)
    \/ \E t \in TrainIds : NBEval(t)
    \/ \E t \in TrainIds : NBSwap(t)
    \/ \E t \in TrainIds, o \in SaveOutcomes : NBSave(t, o)
    \/ \E t \in TrainIds : NBReturn(t)
    \/ \E t \in TrainIds, c \in BOOLEAN : TrainCommit(t, c)
    \/ \E p \in PredictIds, f \in FeatureVectors :
          PredictArrive(p, "http", f, FALSE)
    \/ \E p \in PredictIds : PredictRequest(p)
    \/ \E p \in PredictIds, found \in BOOLEAN : PredictGotComponent(p, found)

SpecHttp == Init /\ [][NextHttp]_vars

\* The /predictions/predict route with save_history, against models
\* installed by train calls that run one at a time.
NextHistory ==
    \/ \E in \in HttpInputs : TrainCall(1, in)
    \/ NBCheck(1)
    \/ NBSplit(1)
    \/ NBAlloc(1)
    \/ NBFit(1)
    \/ NBEval(1)
    \/ NBSwap(1)
    \/ \E o \in SaveOutcomes : NBSave(1, o)
    \/ NBReturn(1)
    \/ \E p \in PredictIds, f \in FeatureVectors, sh \in BOOLEAN :
          PredictArrive(p, "http", f, sh)
    \/ \E p \in PredictIds : PredictRequest(p)
    \/ \E p \in PredictIds, found \in BOOLEAN : PredictGotComponent(p, found)
    \/ \E p \in PredictIds, c \in BOOLEAN : PredictCommit(p, c)

SpecHistory == Init /\ [][NextHistory]_vars

\* train and predict called on rows, one call after the other
NextEval ==
    \/ \E in \in EvalInputs, o \in SaveOutcomes : Train(in, o)
    \/ \E f \in EvalVectors : Predict(f)

SpecEval == Init /\ [][NextEval]_vars

\* The /train and /model-status routes, one train request at a time, and
\* restarts.
NextStatus ==
    \/ TrainRequest(1)
    \/ \E in \in HttpInputs : TrainGotData(1, in)
    \/ RouteCheck(1)
    \/ NBCheck(1)
    \/ NBSplit(1)
    \/ NBAlloc(1)
    \/ NBFit(1)
    \/ NBEval(1)
    \/ NBSwap(1)
    \/ \E o \in SaveOutcomes : NBSave(1, o)
    \/ NBReturn(1)
    \/ \E c \in BOOLEAN : TrainCommit(1, c)
    \/ StatusRequest
    \/ StatusGotLatest
    \/ Restart

SpecStatus == Init /\ [][NextStatus]_vars

\* train on rows, get_model_info and predict, one call after the other
NextInfo ==
    \/ \E in \in InfoInputs, o \in SaveOutcomes : Train(in, o)
    \/ ModelInfo
    \/ \E f \in EvalVectors : Predict(f)

SpecInfo == Init /\ [][NextInfo]_vars


\* the record-creation routes
NextRecords ==
    \/ \E v \in LevelInputs, found \in BOOLEAN, committed \in BOOLEAN :
          CreateRecord(v, found, committed)
    \/ \E vs \in UNION { [1..n -> LevelInputs] : n \in 1..MaxRecords },
          committed \in BOOLEAN : BulkCreate(vs, committed)

SpecRecords == Init /\ [][NextRecords]_vars


(* ============================== claims ================================ *)
\* the step of train call t that ends the call
Ends(t) == tpc[t] # "idle" /\ tpc'[t] = "idle"

\* the singleton holds model g, fitted and scored, with its metadata
HoldsIn(inst, g) ==
    /\ inst.is_trained
    /\ inst.model = [kind |-> "GaussianNB", by |-> g, fitted |-> TRUE,
                     scored |-> TRUE]
    /\ inst.last_trained_at = g
Holds(g) == HoldsIn(Installed, g)

\* the signals by which the code reports the error kinds the claims name
InsufficientDataError == {ErrTooFew, ErrRouteTooFew, ErrSplit}
NotTrainedError == {ErrNotTrained, Http400NotTrained, InfoErrorDict}
InvalidInputError == {ErrLength}

(* C1: a train call on fewer than 10 samples ends with                     *)
(* InsufficientDataError at the size check, and the installed model,       *)
(* trained-at, sample count and the snapshot file are what they were when  *)
(* the call began.                                                         *)
C1_TooFewRejected ==
    [][\A t \in TrainIds :
         (tpc[t] \in {"route_check", "nb_check"} /\ tpc'[t] # tpc[t]
            /\ Size(tl[t].data) < 10)
         => /\ Ends(t)
            /\ lastTrain'.status \in InsufficientDataError
            /\ lastTrain'.at = "size"
            /\ Installed' = tl[t].prev
            /\ disk' = tl[t].prevDisk]_vars

C1_Witness ==
    /\ lastTrain.at = "size"
    /\ lastTrain.status \in InsufficientDataError
    /\ lastTrain.before # 0
    /\ Holds(lastTrain.before)
    /\ disk.kind = "pickle"

(* C2: a train call that fails at the stratified split leaves the          *)
(* singleton and the file as they were when the call began, and a predict  *)
(* with 7 features served after it is answered by the model that was       *)
(* installed before the call.                                              *)
C2_SplitFailureKeepsModel ==
    /\ [][\A t \in TrainIds :
            (Ends(t) /\ lastTrain'.at = "split")
            => /\ lastTrain'.status \in InsufficientDataError
               /\ Installed' = tl[t].prev
               /\ disk' = tl[t].prevDisk]_vars
    /\ []((lastTrain.at = "split" /\ lastTrain.before # 0
             /\ resp.op = "predict" /\ resp.len = 7)
          => (resp.status = "ok" /\ resp.by = lastTrain.before))

C2_Witness ==
    /\ lastTrain.at = "split"
    /\ lastTrain.before # 0
    /\ resp.op = "predict"
    /\ resp.status = "ok"
    /\ resp.by = lastTrain.before

(* C3: when _save_model fails after the swap, the train call still         *)
(* returns its report (it does not fail).                                  *)
C3_SaveFailureNotFatal ==
    lastTrain.save \in {"open_fails", "dump_fails"} => lastTrain.status = "ok"

(* C4: when _save_model fails after the swap, the newly fitted model, its  *)
(* trained-at and its sample count stay installed, and predict and status  *)
(* calls served afterwards use them.                                       *)
C4_NewModelStaysAfterSaveFailure ==
    /\ [][\A t \in TrainIds :
            (Ends(t) /\ lastTrain'.at = "save")
            => /\ HoldsIn(Installed', tl[t].gen)
               /\ tl[t].gen # FittedBy(tl[t].prev)
               /\ training_samples' = NTrain(tl[t].data, tl[t].pct)]_vars
    /\ []((lastTrain.at = "save" /\ resp.op = "predict" /\ resp.len = 7)
          => (resp.status = "ok" /\ resp.by = lastTrain.gen))
    /\ []((lastTrain.at = "save" /\ resp.op = "status" /\ running = NoTask)
          => (resp.is_trained /\ resp.last_trained_at = lastTrain.gen
                /\ resp.training_samples = training_samples))

C4_Witness ==
    /\ lastTrain.at = "save"
    /\ lastTrain.before # 0
    /\ resp.op = "predict"
    /\ resp.status = "ok"
    /\ resp.by = lastTrain.gen
    /\ resp.by # lastTrain.before

(* C5: in a process started without a snapshot file, a predict served      *)
(* before any train call has returned fails with NotTrainedError.          *)
C5_PredictBeforeTrainFails ==
    (boot = "absent" /\ ~trainedOnce /\ resp.op = "predict")
    => (resp.status \in NotTrainedError /\ resp.by = 0)

(* C6: with a model installed, predict on a vector whose length is not 7   *)
(* fails with InvalidInputError, the model is given no vector, and the     *)
(* singleton is unchanged.                                                 *)
C6_WrongLengthRejected ==
    /\ []((resp.op = "predict" /\ resp.len # 7 /\ running = NoTask
             /\ is_trained /\ model # NoModel)
          => (resp.status \in InvalidInputError /\ resp.x = <<>> /\ resp.by = 0))
    /\ [][\A p \in PredictIds :
            (ppc[p] # "idle" /\ ppc'[p] = "idle") => UNCHANGED <<svc, disk>>]_vars

C6_Witness ==
    /\ resp.op = "predict"
    /\ resp.len = 6
    /\ resp.status \in InvalidInputError
    /\ running = NoTask
    /\ is_trained
    /\ IsFitted(model)

(* C7: model-info called while no model is installed (is_trained false or  *)
(* no model object) answers "not trained", never a normal result.          *)
C7_ModelInfoUntrained ==
    (resp.op = "info" /\ running = NoTask /\ (~is_trained \/ model = NoModel))
    => resp.status \in NotTrainedError

C7_Witness ==
    /\ resp.op = "info"
    /\ resp.via = "service"
    /\ resp.status \in NotTrainedError
    /\ ~is_trained
    /\ running = NoTask

(* C8: predict never delegates to a torn model: it is never answered by an *)
(* estimator that was not fit, and whenever predict can run the installed  *)
(* model is one whose fit and evaluation have completed.                   *)
C8_NoTornModel ==
    /\ resp.op = "predict" => resp.status # "NotFittedError"
    /\ (running = NoTask /\ is_trained /\ model # NoModel)
       => (model.fitted /\ model.scored)

(* C9: at most one train call is between the start of its fit and the end  *)
(* of its swap-and-persist sequence, and while one is there every other    *)
(* train call is waiting at an await (or has not started).                 *)
C9_TrainsSerialized ==
    \A t \in TrainIds :
        tpc[t] \in {"alloc", "fit", "eval", "swap", "save"} =>
            \A u \in TrainIds \ {t} : tpc[u] \in {"idle", "await_data", "await_commit"}

C9_Witness ==
    \E t \in TrainIds, u \in TrainIds :
        /\ t # u
        /\ tpc[t] = "fit"
        /\ tpc[u] = "await_data"

(* C10: a predict that arrives while a train call is in split / fit /      *)
(* evaluate is served without waiting for that train call to end, by the   *)
(* model that was installed before the train call started.                 *)
C10_PredictDuringTrain ==
    (resp.op = "predict" /\ resp.during # 0
       /\ resp.status \notin {Http404Component, ErrCommit})
    => /\ ~resp.waited
       /\ IF resp.before = 0 THEN resp.status \in NotTrainedError
          ELSE resp.status = "ok" /\ resp.by = resp.before

(* C11: model, last_trained_at and training_samples change together: when *)
(* a status, predict or model-info call can be served, the installed      *)
(* model is the one last_trained_at belongs to, and after a train call     *)
(* that failed the installed model is the one installed before the call.   *)
C11_AtomicTriple ==
    /\ (running = NoTask /\ is_trained /\ model # NoModel)
         => model.by = last_trained_at
    /\ (running = NoTask /\ lastTrain.status \notin {"none", "ok"})
         => FittedBy(Installed) = lastTrain.before

C13_StartsUntrained ==
    (boot = "absent" /\ lastTrain = NoTrainResp /\ resp.op = "status")
    => (resp.status = "ok" /\ ~resp.is_trained /\ resp.training_samples = 0
          /\ resp.last_trained_at = 0)

C13_Witness ==
    /\ restarts > 0
    /\ boot = "absent"
    /\ lastTrain = NoTrainResp
    /\ resp.op = "status"
    /\ ~resp.is_trained

\* sum of the entries of a 3x3 matrix
SumAll(m) == SumSeq([i \in 1..3 |-> SumSeq(m[i])])

(* C14: the confusion matrix of every returned report is 3x3, its entry    *)
(* [i][j] is the number of test rows of true class CLASSES[i] predicted as *)
(* CLASSES[j] (ringan, sedang, berat in that order), and its entries sum   *)
(* to the number of rows of the test partition.                            *)
C14_ConfusionMatrix ==
    report.status = "ok" =>
        /\ DOMAIN report.confusion_matrix = 1..3
        /\ \A i \in 1..3 : DOMAIN report.confusion_matrix[i] = 1..3
        /\ \A i \in 1..3, j \in 1..3 :
              report.confusion_matrix[i][j] =
                Cardinality({ k \in 1..Len(report.y_test) :
                    /\ report.y_test[k] = <<"ringan", "sedang", "berat">>[i]
                    /\ report.y_pred[k] = <<"ringan", "sedang", "berat">>[j] })
        /\ SumAll(report.confusion_matrix) = report.test_samples
        /\ report.test_samples = Len(report.test_rows)
        /\ Len(report.y_test) = Len(report.test_rows)

C14_Witness ==
    /\ report.status = "ok"
    /\ report.confusion_matrix[1][2] = 1
    /\ report.confusion_matrix[3][3] = 1
    /\ report.test_samples = 3

(* C15: the accuracy of every returned report equals the trace of its      *)
(* confusion matrix divided by the sum of its entries.                     *)
C15_AccuracyIsTraceOverSum ==
    report.status = "ok" =>
        /\ SumAll(report.confusion_matrix) > 0
        /\ report.accuracy[2] > 0
        /\ RatEq(report.accuracy,
                 <<report.confusion_matrix[1][1] + report.confusion_matrix[2][2]
                      + report.confusion_matrix[3][3],
                   SumAll(report.confusion_matrix)>>)

C15_Witness ==
    /\ report.status = "ok"
    /\ report.accuracy[1] > 0
    /\ report.accuracy[1] < report.accuracy[2]

C17_LabelHasMaxPosterior ==
    answer.status = "ok" =>
        /\ \A c \in {"ringan", "sedang", "berat"} :
              RatLeq(answer.probabilities[c],
                     answer.probabilities[answer.predicted_level])
        /\ RatEq(answer.confidence, answer.probabilities[answer.predicted_level])

\* position of a label in the fixed order ringan, sedang, berat
FixedPos(c) == CHOOSE k \in 1..3 : CLASSES[k] = c

(* C18: when several classes share the highest probability, predict        *)
(* answers with the one that comes first in ringan, sedang, berat.         *)
C18_TieBreakFixedOrder ==
    answer.status = "ok" =>
        \A c \in {"ringan", "sedang", "berat"} :
            RatEq(answer.probabilities[c], answer.confidence)
            => FixedPos(answer.predicted_level) <= FixedPos(c)

(* C19: a train call on 10 or more rows that all carry the same label      *)
(* fails with InsufficientDataError.                                       *)
C19_SingleClassRejected ==
    (report.status # "none" /\ Len(RowsOf(report.on)) >= 10
       /\ Len(Unique(RowsOf(report.on))) < 2)
    => report.status \in InsufficientDataError

\* round(n * pct / 100), halves to the even neighbour
Round(n, pct) ==
    LET q == (n * pct) \div 100
        r == (n * pct) % 100
    IN  IF r < 50 THEN q
        ELSE IF r > 50 THEN q + 1
        ELSE IF q % 2 = 0 THEN q ELSE q + 1

(* C20: every returned report has test_samples = round(n * f) and          *)
(* training_samples = n - round(n * f).                                    *)
C20_TestPartitionRounded ==
    report.status = "ok" =>
        /\ report.test_samples = Round(Len(RowsOf(report.on)), report.on.pct)
        /\ report.training_samples =
              Len(RowsOf(report.on)) - Round(Len(RowsOf(report.on)), report.on.pct)

(* C21: the classes returned by get_model_info are in the order ringan,    *)
(* sedang, berat, and the priors, means and variances it returns are       *)
(* indexed in that order.                                                  *)
C21_ClassesInFixedOrder ==
    info.status = "ok" =>
        /\ \A i \in 1..Len(info.classes), j \in 1..Len(info.classes) :
              i < j => FixedPos(info.classes[i]) < FixedPos(info.classes[j])
        /\ \A k \in 1..Len(info.classes) :
              info.class_prior[k] = ClassPrior(estimator, info.classes[k])

(* C22: the class priors returned for an installed model sum to 1 and      *)
(* every variance returned for it is greater than 0.                       *)
C22_PriorsAndVariances ==
    info.status = "ok" =>
        /\ Sum([k \in 1..info.class_count |-> info.class_prior[k][1]])
              = Len(estimator.train)
        /\ \A k \in 1..info.class_count :
              info.class_prior[k][2] = Len(estimator.train)
        /\ \A k \in 1..info.class_count, j \in 1..NumFeatures :
              \/ info.var[k][j].own[1] > 0
              \/ info.var[k][j].largest[1] > 0

C24_TrainedImpliesUsable ==
    (running = NoTask /\ is_trained)
    => /\ IsFitted(model)
       /\ \A f \in FeatureVectors :
             Len(f) = NumFeatures => PredictOn(Installed, f).status = "ok"

(* C25: a train call whose _save_model fails leaves the snapshot file as   *)
(* it was when the call began, so that a restart after it installs what a  *)
(* restart before it would have installed: the model saved last, with its  *)
(* trained-at and its sample count.                                        *)
C25_FailedSaveKeepsSnapshot ==
    [][\A t \in TrainIds :
         (Ends(t) /\ lastTrain'.at = "save" /\ tl[t].prevDisk.kind = "pickle")
         => /\ disk' = tl[t].prevDisk
            /\ LoadModel(disk').is_trained
            /\ LoadModel(disk') = LoadModel(tl[t].prevDisk)]_vars

(* C26: when a model-status response carries an accuracy, no train call is *)
(* in flight and the service is as it was when the request read it,        *)
(* is_trained is true (in the response and in the service) and the         *)
(* accuracy is that of the evaluation run that produced the installed      *)
(* model.                                                                  *)
C26_AccuracyOfInstalledModel ==
    [][(spc.pc = "await_latest" /\ spc'.pc = "idle" /\ resp'.accuracy # 0
          /\ \A t \in TrainIds : tpc[t] = "idle"
          /\ spc.status = [GetStatus(Installed) EXCEPT !.via = "http"])
       => /\ resp'.is_trained
          /\ is_trained
          /\ model # NoModel
          /\ resp'.accuracy = model.by]_vars

(* C27: within one process is_trained never goes from true to false,       *)
(* whatever call is made and however it ends, and every status call        *)
(* reports the is_trained of the service: once status has reported true it *)
(* does not report false again before a restart.                           *)
C27_TrainedIsMonotonic ==
    [][/\ (is_trained /\ restarts' = restarts) => is_trained'
       /\ (resp' # resp /\ resp'.op = "status")
             => resp'.is_trained = is_trained']_vars

C27_Witness ==
    /\ resp.op = "status"
    /\ resp.is_trained
    /\ lastTrain.at = "fit"
    /\ lastTrain.before # 0
    /\ ~IsFitted(model)
    /\ restarts = 0

(* C28: a process started on a snapshot file that cannot be unpickled      *)
(* comes up with no model installed; until a train call has ended, status  *)
(* reports is_trained false and predict fails as not trained.              *)
C28_CorruptSnapshotStartsUntrained ==
    (boot = "corrupt" /\ lastTrain = NoTrainResp /\ running = NoTask)
    => /\ restarts > 0
       /\ model = NoModel
       /\ ~is_trained
       /\ resp.op = "status" => (resp.status = "ok" /\ ~resp.is_trained)
       /\ resp.op = "predict" => (resp.status \in NotTrainedError /\ resp.by = 0)

C28_Witness ==
    /\ boot = "corrupt"
    /\ lastTrain = NoTrainResp
    /\ running = NoTask
    /\ resp.op = "predict"
    /\ resp.len = 7
    /\ resp.status \in NotTrainedError

C30_AcceptedLevelsAreStored ==
    [][LET c == created' IN
       (/\ c.op # "none"
        /\ \A i \in 1..Len(c.levels) : validate_damage_level(c.levels[i])
        /\ c.found
        /\ c.committed)
       => /\ c.status = "ok"
          /\ c.error_count = 0
          /\ Len(records') = Len(records) + Len(c.levels)
          /\ \A i \in 1..Len(records') :
                records'[i].damage_level \in DamageLevelValues]_vars

=============================================================================
